---- MODULE Spec2Model ----
(***************************************************************************)
(* Conversational retrieval-over-code chain                                *)
(* (generative_app/chains/conversational_retrieval_over_code.py).          *)
(*                                                                         *)
(* Text is a sequence of one-character strings.  An Optional value is a    *)
(* sequence of length 0 (Python None) or 1 (the value).                    *)
(***************************************************************************)
EXTENDS Integers, Sequences, FiniteSets, TLC

\* ------------------------------------------------------------------ bounds
\* Longest document sequence handed to the budgeter.
MaxDocs == 3
\* Largest token cost of one document (costs are 0..MaxCost).
MaxCost == 2
\* Largest configured token limit (limits are None and -1..MaxLimit).
MaxLimit == 5
\* Longest code body / explanation drawn for the parser.
MaxCodeLen == 3
MaxExplLen == 2

\* ------------------------------------------------------- Python semantics
None == <<>>
Some(v) == <<v>>

\* len(s) > i >= -len(s): s[i] does not raise IndexError (i is 0-based).
ValidIndex(s, i) == -Len(s) <= i /\ i < Len(s)

\* s[i] for a valid 0-based index; a negative index counts from the end.
PyIndex(s, i) == IF i >= 0 THEN s[i + 1] ELSE s[Len(s) + i + 1]

\* s[:n] for any integer n; a negative n drops -n items from the end.
PySlicePrefix(s, n) ==
    LET stop == IF n >= 0
                THEN (IF n < Len(s) THEN n ELSE Len(s))
                ELSE (IF Len(s) + n > 0 THEN Len(s) + n ELSE 0)
    IN SubSeq(s, 1, stop)

RECURSIVE PySum(_)
PySum(s) == IF s = <<>> THEN 0 ELSE s[1] + PySum(Tail(s))

\* bool(x) of an Optional[int]: None and 0 are both falsy.
Truthy(opt) == opt # None /\ opt[1] # 0

\* All sequences over alphabet A of length at most n.
StringsUpTo(A, n) == UNION {[1..k -> A] : k \in 0..n}

IsPrefix(s, t) == Len(s) <= Len(t) /\ SubSeq(t, 1, Len(s)) = s

\* ---------------------------------------------------------- the budgeter
\* A Document: an identity (its rank in the retrieved list) and its
\* page_content, a text of that many tokens.
Words(c) == [i \in 1..c |-> "w"]
Doc(i, c) == [id |-> i, page_content |-> Words(c)]

\* llm.get_num_tokens(text): the token counter of the language model.
get_num_tokens(text) == Len(text)

\* The outcome of a call: it returned a value or it raised.
Returned(v, counted) == [raised |-> FALSE, value |-> v, counted |-> counted]
Raised(counted) == [raised |-> TRUE, value |-> <<>>, counted |-> counted]

\* The while loop of _reduce_tokens_below_limit: the final num_docs, or
\* None when tokens[num_docs] raises IndexError.
RECURSIVE DropLoop(_, _, _, _)
DropLoop(tokens, num_docs, token_count, limit) ==
    IF token_count > limit
    THEN IF ValidIndex(tokens, num_docs - 1)
         THEN DropLoop(tokens, num_docs - 1,
                       token_count - PyIndex(tokens, num_docs - 1), limit)
         ELSE None
    ELSE Some(num_docs)

\* The guard of the trimming branch: the limit is truthy and the combine
\* chain is a StuffDocumentsChain.
LimitApplies(max_tokens_limit, is_stuff) ==
    Truthy(max_tokens_limit) /\ is_stuff

\* Mutation of TokenCountCalls: the costs are computed before the guard.
TokenCountCallsEager(docs, max_tokens_limit, is_stuff) ==
    [i \in 1..Len(docs) |-> docs[i].page_content]

\* The texts handed to get_num_tokens, in order.
TokenCountCalls(docs, max_tokens_limit, is_stuff) ==
    IF LimitApplies(max_tokens_limit, is_stuff)
    THEN [i \in 1..Len(docs) |-> docs[i].page_content]
    ELSE <<>>

\* Mutation of KeepDocs: the slice keeps the last num_docs documents.
KeepDocsTail(docs, num_docs) ==
    SubSeq(docs, Len(docs) - num_docs + 1, Len(docs))

\* return docs[:num_docs]
KeepDocs(docs, num_docs) == PySlicePrefix(docs, num_docs)

reduce_tokens_below_limit(docs, max_tokens_limit, is_stuff) ==
    LET counted == TokenCountCalls(docs, max_tokens_limit, is_stuff)
    IN IF LimitApplies(max_tokens_limit, is_stuff)
       THEN LET tokens == [i \in 1..Len(docs) |->
                              get_num_tokens(docs[i].page_content)]
                token_count == PySum(PySlicePrefix(tokens, Len(docs)))
                n == DropLoop(tokens, Len(docs), token_count,
                              max_tokens_limit[1])
            IN IF n = None
               THEN Raised(counted)
               ELSE Returned(KeepDocs(docs, n[1]), counted)
       ELSE Returned(KeepDocs(docs, Len(docs)), counted)

\* ------------------------------------------------------------ the parser
\* The backtick character (a TLA+ string cannot hold one).
Tick == "<backtick>"
OpenFence == <<Tick, Tick, Tick, "p", "y", "t", "h", "o", "n">>
CloseFence == <<Tick, Tick, Tick>>
SentinelNone == <<"N", "o", "n", "e">>

\* pat occurs in s at (1-based) position i.
MatchAt(s, pat, i) ==
    /\ i >= 1
    /\ i + Len(pat) - 1 <= Len(s)
    /\ \A k \in 1..Len(pat) : s[i + k - 1] = pat[k]

\* The first position >= from where pat occurs in s, or 0.
FirstMatch(s, pat, from) ==
    LET hits == {i \in from..Len(s) : MatchAt(s, pat, i)}
    IN IF hits = {} THEN 0 ELSE CHOOSE i \in hits : \A j \in hits : i <= j

\* Group 2 of the pattern, (.*?)$ without re.MULTILINE: the shortest text
\* up to a place where $ matches, which is the end of the string or just
\* before a newline that ends the string.
LazyToDollar(rest) ==
    IF rest # <<>> /\ rest[Len(rest)] = "\n"
    THEN SubSeq(rest, 1, Len(rest) - 1)
    ELSE rest

\* Mutation of ApplySentinel: the sentinel test is missing.
ApplySentinelMissing(group1) == Some(group1)

\* if python_code == "None": python_code = None
ApplySentinel(group1) ==
    IF group1 = SentinelNone THEN None ELSE Some(group1)

\* Mutation of parse_code: the closing fence is optional, an opening fence
\* that is never closed takes the rest of the text as code.
parse_code_unclosed(output) ==
    LET open == FirstMatch(output, OpenFence, 1)
        close == IF open = 0 THEN 0
                 ELSE FirstMatch(output, CloseFence, open + Len(OpenFence))
    IN IF open = 0
       THEN [python_code |-> None, explain_code |-> None]
       ELSE IF close = 0
            THEN [python_code |-> ApplySentinel(SubSeq(output,
                                     open + Len(OpenFence), Len(output))),
                  explain_code |-> Some(<<>>)]
            ELSE [python_code |-> ApplySentinel(SubSeq(output,
                                     open + Len(OpenFence), close - 1)),
                  explain_code |-> Some(LazyToDollar(SubSeq(output,
                                     close + Len(CloseFence), Len(output))))]

\* re.search(r"```python(.*?)```(.*?)$", output, re.DOTALL): the leftmost
\* opening fence, then the nearest closing fence after it.
parse_code(output) ==
    LET open == FirstMatch(output, OpenFence, 1)
        close == IF open = 0 THEN 0
                 ELSE FirstMatch(output, CloseFence, open + Len(OpenFence))
    IN IF open = 0 \/ close = 0
       THEN [python_code |-> None, explain_code |-> None]
       ELSE LET group1 == SubSeq(output, open + Len(OpenFence), close - 1)
                group2 == LazyToDollar(SubSeq(output, close + Len(CloseFence),
                                              Len(output)))
            IN [python_code |-> ApplySentinel(group1),
                explain_code |-> Some(group2)]

\* ------------------------------------------------------------------ state
VARIABLES
    config,            \* the chain's fields (flags, max_tokens_limit, ...)
    inputs,            \* the inputs dictionary of the invocation
    svc,               \* per service: its response, once it has been asked
    pc,                \* per entry point: the step it is about to take
    new_request,       \* per entry point: local new_request
    docs,              \* per entry point: local docs
    answer,            \* per entry point: local answer
    parsed,            \* per entry point: locals code, expl
    is_code_not_safe,  \* per entry point: local is_code_not_safe
    output,            \* per entry point: the returned dictionary
    calls,             \* per entry point: the service calls issued, in order
    failed_at,         \* per entry point: the stage whose exception escaped
    r_docs,            \* budgeter alone: the argument docs
    r_first,           \* budgeter alone: outcome of the first application
    r_second,          \* budgeter alone: outcome of applying it to r_first
    r_pc,              \* budgeter alone: "off", "ready", "once", "twice"
    p_shape,           \* parser alone: how the raw text was put together
    p_prefix,          \* parser alone: text before the fence
    p_code,            \* parser alone: the code body C
    p_expl,            \* parser alone: the explanation E
    p_raw,             \* parser alone: the raw text handed to parse_code
    p_result,          \* parser alone: what parse_code returned
    p_pc               \* parser alone: "off", "ready", "parsed"

chain_vars == <<pc, new_request, docs, answer, parsed, is_code_not_safe,
                output, calls, failed_at>>
env_vars == <<config, inputs, svc>>
reduce_vars == <<r_docs, r_first, r_second, r_pc>>
parse_vars == <<p_shape, p_prefix, p_code, p_expl, p_raw, p_result, p_pc>>
vars == <<env_vars, chain_vars, reduce_vars, parse_vars>>

\* The two entry points: _call (blocking) and _acall (coroutine).
Paths == {"call", "acall"}

\* Python's True, as distinct from any text a model returns.
BoolTrue == <<"bool", "True">>

Limits == {None} \cup {Some(l) : l \in -1..MaxLimit}

Config(src_docs, gen_q, rev_req, limit, stuff) ==
    [return_source_documents |-> src_docs,
     return_generated_question |-> gen_q,
     return_revision_request |-> rev_req,
     max_tokens_limit |-> limit,
     is_stuff |-> stuff,
     output_key |-> <<"code", "explanation">>]

\* ---- values of the variables a specification does not use
NoOutcome == Returned(<<>>, <<>>)
NoParse == [python_code |-> None, explain_code |-> None]

ChainOff ==
    /\ pc = [p \in Paths |-> "OFF"]
    /\ new_request = [p \in Paths |-> <<>>]
    /\ docs = [p \in Paths |-> <<>>]
    /\ answer = [p \in Paths |-> <<>>]
    /\ parsed = [p \in Paths |-> NoParse]
    /\ is_code_not_safe = [p \in Paths |-> <<>>]
    /\ output = [p \in Paths |-> <<>>]
    /\ calls = [p \in Paths |-> <<>>]
    /\ failed_at = [p \in Paths |-> "none"]
    /\ inputs = [question |-> <<>>, chat_history |-> <<>>]
    /\ svc = <<>>

ReduceOff ==
    /\ r_docs = <<>>
    /\ r_first = NoOutcome
    /\ r_second = NoOutcome
    /\ r_pc = "off"

ParseOff ==
    /\ p_shape = "off"
    /\ p_prefix = <<>>
    /\ p_code = <<>>
    /\ p_expl = <<>>
    /\ p_raw = <<>>
    /\ p_result = NoParse
    /\ p_pc = "off"

\* ------------------------------------------- the budgeter applied alone
CostSeqs == UNION {[1..n -> 0..MaxCost] : n \in 0..MaxDocs}
MkDocs(costs) == [i \in 1..Len(costs) |-> Doc(i, costs[i])]

InitReduce ==
    /\ \E limit \in Limits, stuff \in BOOLEAN :
          config = Config(FALSE, FALSE, FALSE, limit, stuff)
    /\ \E costs \in CostSeqs : r_docs = MkDocs(costs)
    /\ r_first = NoOutcome
    /\ r_second = NoOutcome
    /\ r_pc = "ready"
    /\ ChainOff
    /\ ParseOff

\* self._reduce_tokens_below_limit(docs)
ReduceOnce ==
    /\ r_pc = "ready"
    /\ r_first' = reduce_tokens_below_limit(r_docs, config.max_tokens_limit,
                                            config.is_stuff)
    /\ r_pc' = "once"
    /\ UNCHANGED <<env_vars, chain_vars, parse_vars, r_docs, r_second>>

\* self._reduce_tokens_below_limit(<what the first application returned>)
ReduceAgain ==
    /\ r_pc = "once"
    /\ ~r_first.raised
    /\ r_second' = reduce_tokens_below_limit(r_first.value,
                                             config.max_tokens_limit,
                                             config.is_stuff)
    /\ r_pc' = "twice"
    /\ UNCHANGED <<env_vars, chain_vars, parse_vars, r_docs, r_first>>

NextReduce == ReduceOnce \/ ReduceAgain

SpecReduce == InitReduce /\ [][NextReduce]_vars

\* --------------------------------------------- the parser applied alone
CodeAlphabet == {Tick, "\n", "x"}
Codes == StringsUpTo(CodeAlphabet, MaxCodeLen)
            \cup {SentinelNone, <<"\n">> \o SentinelNone \o <<"\n">>}
Expls == StringsUpTo(CodeAlphabet, MaxExplLen)
Prefixes == {<<>>, <<"x">>, <<"\n">>}
Shapes == {"fenced", "unclosed", "untagged", "plain"}

\* The raw text of each shape.
RawText(shape, prefix, code, expl) ==
    CASE shape = "fenced" -> prefix \o OpenFence \o code \o CloseFence \o expl
      [] shape = "unclosed" -> prefix \o OpenFence \o code \o expl
      [] shape = "untagged" -> prefix \o CloseFence \o code \o CloseFence \o expl
      [] shape = "plain" -> prefix \o code \o expl

InitParse ==
    /\ p_shape \in Shapes
    /\ p_prefix \in Prefixes
    /\ p_code \in Codes
    /\ p_expl \in Expls
    /\ p_raw = RawText(p_shape, p_prefix, p_code, p_expl)
    /\ p_result = NoParse
    /\ p_pc = "ready"
    /\ config = Config(FALSE, FALSE, FALSE, None, TRUE)
    /\ ChainOff
    /\ ReduceOff

\* parse_code(output)
ParseOnce ==
    /\ p_pc = "ready"
    /\ p_result' = parse_code(p_raw)
    /\ p_pc' = "parsed"
    /\ UNCHANGED <<env_vars, chain_vars, reduce_vars, p_shape, p_prefix,
                   p_code, p_expl, p_raw>>

NextParse == ParseOnce

SpecParse == InitParse /\ [][NextParse]_vars

\* ============================================== the chain's entry points
\* The external services a run calls.
Stages == {"condense", "retrieve", "count", "synthesize", "critique"}

\* A service answers with a value or raises.
Ok(v) == [ok |-> TRUE, value |-> v]
Failure == [ok |-> FALSE, value |-> <<>>]

\* The service of `stage` answers resp: its first caller draws the
\* response, and a later caller with the same request gets the same one.
Ask(stage, resp) ==
    /\ svc[stage] \in {None, Some(resp)}
    /\ svc' = [svc EXCEPT ![stage] = Some(resp)]

\* One service call as the caller issues it.
Entry(service, method, args) ==
    [service |-> service, method |-> method, args |-> args]

Append1(p, e) == [calls EXCEPT ![p] = Append(@, e)]

\* ---- what the user and the services can say
RawQuestion == <<"a", "p", "p">>
Questions == {<<>>, RawQuestion}
Streamlit == <<"s", "t", "r", "e", "a", "m", "l", "i", "t">>
Python == <<"p", "y", "t", "h", "o", "n">>
\* "pytpythonhon": removing the inner "python" joins a new one.
NestedPython == <<"p", "y", "t">> \o Python \o <<"h", "o", "n">>
CondensedQueries ==
    {<<"t", "o", "d", "o">>, Python \o <<" ">> \o RawQuestion, NestedPython}
RetrievedLists == {MkDocs(<<>>), MkDocs(<<1, MaxCost>>),
                   MkDocs([i \in 1..MaxDocs |-> MaxCost])}
AnswerPlain == <<"x">>
AnswerFenced == OpenFence \o <<"x">> \o CloseFence \o <<"y">>
AnswerSentinel == OpenFence \o SentinelNone \o CloseFence \o <<"y">>
AnswerUnclosed == OpenFence \o <<"x">>
AnswerEmptyCode == OpenFence \o CloseFence \o <<"y">>
Answers == {AnswerPlain, AnswerFenced, AnswerSentinel, AnswerUnclosed,
            AnswerEmptyCode}
CriticTexts == {<<"str", "True">>, <<"str", "False">>}
Budgets == {<<None, TRUE>>, <<None, FALSE>>, <<Some(MaxLimit), TRUE>>,
            <<Some(MaxLimit), FALSE>>, <<Some(-1), TRUE>>}

Responses(values) == {Ok(v) : v \in values} \cup {Failure}

\* The state when both entry points are about to run on the same inputs.
InitChain ==
    /\ \E sd \in BOOLEAN, gq \in BOOLEAN, rr \in BOOLEAN, b \in Budgets :
          config = Config(sd, gq, rr, b[1], b[2])
    /\ \E q \in Questions : inputs = [question |-> q, chat_history |-> <<>>]
    /\ svc = [st \in Stages |-> None]
    /\ pc = [p \in Paths |-> "CONDENSING"]
    /\ new_request = [p \in Paths |-> <<>>]
    /\ docs = [p \in Paths |-> <<>>]
    /\ answer = [p \in Paths |-> <<>>]
    /\ parsed = [p \in Paths |-> NoParse]
    /\ is_code_not_safe = [p \in Paths |-> <<>>]
    /\ output = [p \in Paths |-> <<>>]
    /\ calls = [p \in Paths |-> <<>>]
    /\ failed_at = [p \in Paths |-> "none"]
    /\ ReduceOff
    /\ ParseOff

\* The output_keys property: the keys the chain declares it returns.
output_keys ==
    <<"code", "explanation">>
       \o (IF config.return_source_documents
           THEN <<"source_documents">> ELSE <<>>)
       \o (IF config.return_generated_question
           THEN <<"generated_question">> ELSE <<>>)

\* An exception escapes the entry point at `stage`.
Fails(p, stage) ==
    /\ pc' = [pc EXCEPT ![p] = "FAILED"]
    /\ failed_at' = [failed_at EXCEPT ![p] = stage]

\* str.replace(old, ""): every non-overlapping occurrence, left to right.
RECURSIVE RemoveAll(_, _)
RemoveAll(s, old) ==
    IF s = <<>> THEN <<>>
    ELSE IF MatchAt(s, old, 1)
         THEN RemoveAll(SubSeq(s, Len(old) + 1, Len(s)), old)
         ELSE <<s[1]>> \o RemoveAll(Tail(s), old)

\* new_request.replace("streamlit", "").replace("python", "")
Sanitize(request) == RemoveAll(RemoveAll(request, Streamlit), Python)

\* _get_chat_history: each turn on a line of its own.
RECURSIVE get_chat_history(_)
get_chat_history(chat_history) ==
    IF chat_history = <<>> THEN <<>>
    ELSE <<"\n">> \o chat_history[1] \o get_chat_history(Tail(chat_history))

\* self._reduce_tokens_below_limit(docs) as the entry points see it: the
\* documents, or the exception of the token counter or of the loop, and
\* the get_num_tokens calls made until then.
Budgeted(retrieved, count_ok) ==
    LET r == reduce_tokens_below_limit(retrieved, config.max_tokens_limit,
                                       config.is_stuff)
        entries == [i \in 1..Len(r.counted) |->
                       Entry("llm", "get_num_tokens", [text |-> r.counted[i]])]
    IN IF r.counted # <<>> /\ ~count_ok
       THEN [failed |-> "count", value |-> <<>>, entries |-> <<entries[1]>>]
       ELSE IF r.raised
            THEN [failed |-> "budget", value |-> <<>>, entries |-> entries]
            ELSE [failed |-> "none", value |-> r.value, entries |-> entries]

\* The budgeter calls the token counter for these documents.
Counts(retrieved) ==
    TokenCountCalls(retrieved, config.max_tokens_limit, config.is_stuff) # <<>>

\* -------------------------------------------------------- _call (blocking)
\* Mutation of Call_Condense: the condenser is called a second time.
Call_CondenseRetry ==
    /\ pc["call"] = "CONDENSING"
    /\ \E resp \in Responses(CondensedQueries) :
          /\ Ask("condense", resp)
          /\ calls' = [calls EXCEPT !["call"] = @ \o
                 << Entry("question_generator", "run",
                          [question |-> inputs["question"]]),
                    Entry("question_generator", "run",
                          [question |-> inputs["question"]]) >>]
          /\ IF resp.ok
             THEN /\ new_request' = [new_request EXCEPT !["call"] = resp.value]
                  /\ pc' = [pc EXCEPT !["call"] = "RETRIEVING"]
                  /\ UNCHANGED failed_at
             ELSE /\ Fails("call", "condense")
                  /\ UNCHANGED new_request
    /\ UNCHANGED <<config, inputs, docs, answer, parsed, is_code_not_safe,
                   output, reduce_vars, parse_vars>>

\* Mutation of Call_Condense: the query is sanitized before retrieval.
Call_CondenseSanitized ==
    /\ pc["call"] = "CONDENSING"
    /\ \E resp \in Responses(CondensedQueries) :
          /\ Ask("condense", resp)
          /\ calls' = Append1("call", Entry("question_generator", "run",
                                            [question |-> inputs["question"]]))
          /\ IF resp.ok
             THEN /\ new_request' = [new_request EXCEPT !["call"] =
                                       Sanitize(resp.value)]
                  /\ pc' = [pc EXCEPT !["call"] = "RETRIEVING"]
                  /\ UNCHANGED failed_at
             ELSE /\ Fails("call", "condense")
                  /\ UNCHANGED new_request
    /\ UNCHANGED <<config, inputs, docs, answer, parsed, is_code_not_safe,
                   output, reduce_vars, parse_vars>>

\* request = inputs["question"]; question_generator.run(question=request)
Call_Condense ==
    /\ pc["call"] = "CONDENSING"
    /\ \E resp \in Responses(CondensedQueries) :
          /\ Ask("condense", resp)
          /\ calls' = Append1("call", Entry("question_generator", "run",
                                            [question |-> inputs["question"]]))
          /\ IF resp.ok
             THEN /\ new_request' = [new_request EXCEPT !["call"] = resp.value]
                  /\ pc' = [pc EXCEPT !["call"] = "RETRIEVING"]
                  /\ UNCHANGED failed_at
             ELSE /\ Fails("call", "condense")
                  /\ UNCHANGED new_request
    /\ UNCHANGED <<config, inputs, docs, answer, parsed, is_code_not_safe,
                   output, reduce_vars, parse_vars>>

\* _get_docs: retriever.get_relevant_documents, then the budgeter.
Call_GetDocs ==
    /\ pc["call"] = "RETRIEVING"
    /\ \E resp \in Responses(RetrievedLists), cresp \in {Ok(<<>>), Failure} :
          LET query == Entry("retriever", "get_relevant_documents",
                             [query |-> new_request["call"]])
              b == Budgeted(resp.value, cresp.ok)
          IN /\ svc["retrieve"] \in {None, Some(resp)}
             /\ IF resp.ok /\ Counts(resp.value)
                THEN /\ svc["count"] \in {None, Some(cresp)}
                     /\ svc' = [svc EXCEPT !["retrieve"] = Some(resp),
                                           !["count"] = Some(cresp)]
                ELSE /\ cresp = Failure
                     /\ svc' = [svc EXCEPT !["retrieve"] = Some(resp)]
             /\ IF resp.ok
                THEN /\ calls' = [calls EXCEPT !["call"] =
                                     Append(@, query) \o b.entries]
                     /\ IF b.failed = "none"
                        THEN /\ docs' = [docs EXCEPT !["call"] = b.value]
                             /\ pc' = [pc EXCEPT !["call"] = "SYNTHESIZING"]
                             /\ UNCHANGED failed_at
                        ELSE /\ Fails("call", b.failed)
                             /\ UNCHANGED docs
                ELSE /\ calls' = Append1("call", query)
                     /\ Fails("call", "retrieve")
                     /\ UNCHANGED docs
    /\ UNCHANGED <<config, inputs, new_request, answer, parsed,
                   is_code_not_safe, output, reduce_vars, parse_vars>>

\* Sanitize new_request, serialize the history, combine_docs_chain.run.
Call_Synthesize ==
    /\ pc["call"] = "SYNTHESIZING"
    /\ new_request' = [new_request EXCEPT !["call"] = Sanitize(@)]
    /\ \E resp \in Responses(Answers) :
          LET new_inputs == [inputs EXCEPT !["chat_history"] =
                                get_chat_history(inputs["chat_history"])]
          IN /\ Ask("synthesize", resp)
             /\ calls' = Append1("call", Entry("combine_docs_chain", "run",
                            [input_documents |-> docs["call"],
                             question |-> new_inputs["question"],
                             chat_history |-> new_inputs["chat_history"]]))
             /\ IF resp.ok
                THEN /\ answer' = [answer EXCEPT !["call"] = resp.value]
                     /\ pc' = [pc EXCEPT !["call"] = "PARSING"]
                     /\ UNCHANGED failed_at
                ELSE /\ Fails("call", "synthesize")
                     /\ UNCHANGED answer
    /\ UNCHANGED <<config, inputs, docs, parsed, is_code_not_safe, output,
                   reduce_vars, parse_vars>>

\* Mutation of Call_Parse: the verdict starts out as False (fail-open).
Call_ParseFailOpen ==
    /\ pc["call"] = "PARSING"
    /\ LET r == parse_code(answer["call"])
       IN /\ parsed' = [parsed EXCEPT !["call"] = r]
          /\ pc' = [pc EXCEPT !["call"] =
                       IF r.python_code # None
                       THEN "CRITIQUING" ELSE "ASSEMBLING"]
    /\ is_code_not_safe' =
          [is_code_not_safe EXCEPT !["call"] = <<"bool", "False">>]
    /\ UNCHANGED <<env_vars, new_request, docs, answer, output, calls,
                   failed_at, reduce_vars, parse_vars>>

\* code, expl = parse_code(answer); is_code_not_safe = True
Call_Parse ==
    /\ pc["call"] = "PARSING"
    /\ LET r == parse_code(answer["call"])
       IN /\ parsed' = [parsed EXCEPT !["call"] = r]
          /\ pc' = [pc EXCEPT !["call"] =
                       IF r.python_code # None
                       THEN "CRITIQUING" ELSE "ASSEMBLING"]
    /\ is_code_not_safe' = [is_code_not_safe EXCEPT !["call"] = BoolTrue]
    /\ UNCHANGED <<env_vars, new_request, docs, answer, output, calls,
                   failed_at, reduce_vars, parse_vars>>

\* Mutation of Call_Critique: a failing critic is swallowed and the verdict
\* keeps its default.
Call_CritiqueSwallowed ==
    /\ pc["call"] = "CRITIQUING"
    /\ \E resp \in Responses(CriticTexts) :
          /\ Ask("critique", resp)
          /\ calls' = Append1("call", Entry("constitutional_chain", "run",
                         [code |-> parsed["call"].python_code[1]]))
          /\ IF resp.ok
             THEN /\ is_code_not_safe' =
                        [is_code_not_safe EXCEPT !["call"] = resp.value]
                  /\ pc' = [pc EXCEPT !["call"] = "ASSEMBLING"]
                  /\ UNCHANGED failed_at
             ELSE /\ pc' = [pc EXCEPT !["call"] = "ASSEMBLING"]
                  /\ UNCHANGED <<failed_at, is_code_not_safe>>
    /\ UNCHANGED <<config, inputs, new_request, docs, answer, parsed, output,
                   reduce_vars, parse_vars>>

\* is_code_not_safe = self.constitutional_chain.run(code=code)
Call_Critique ==
    /\ pc["call"] = "CRITIQUING"
    /\ \E resp \in Responses(CriticTexts) :
          /\ Ask("critique", resp)
          /\ calls' = Append1("call", Entry("constitutional_chain", "run",
                         [code |-> parsed["call"].python_code[1]]))
          /\ IF resp.ok
             THEN /\ is_code_not_safe' =
                        [is_code_not_safe EXCEPT !["call"] = resp.value]
                  /\ pc' = [pc EXCEPT !["call"] = "ASSEMBLING"]
                  /\ UNCHANGED failed_at
             ELSE /\ Fails("call", "critique")
                  /\ UNCHANGED is_code_not_safe
    /\ UNCHANGED <<config, inputs, new_request, docs, answer, parsed, output,
                   reduce_vars, parse_vars>>

\* Mutation of Call_Output: source_documents is set whatever the flag.
Call_OutputAlwaysDocs ==
    LET base == ("source_documents" :> docs["call"])
                   @@ (config.output_key[2] :> parsed["call"].explain_code)
                   @@ (config.output_key[1] :> parsed["call"].python_code)
        with_question == IF config.return_generated_question
                         THEN ("generated_question" :> new_request["call"])
                                 @@ base
                         ELSE base
    IN IF config.return_revision_request
       THEN ("revision_request" :> is_code_not_safe["call"]) @@ with_question
       ELSE with_question

\* The dictionary _call returns.
Call_Output ==
    LET base == (config.output_key[2] :> parsed["call"].explain_code)
                   @@ (config.output_key[1] :> parsed["call"].python_code)
        with_docs == IF config.return_source_documents
                     THEN ("source_documents" :> docs["call"]) @@ base
                     ELSE base
        with_question == IF config.return_generated_question
                         THEN ("generated_question" :> new_request["call"])
                                 @@ with_docs
                         ELSE with_docs
    IN IF config.return_revision_request
       THEN ("revision_request" :> is_code_not_safe["call"]) @@ with_question
       ELSE with_question

Call_Assemble ==
    /\ pc["call"] = "ASSEMBLING"
    /\ output' = [output EXCEPT !["call"] = Call_Output]
    /\ pc' = [pc EXCEPT !["call"] = "ASSEMBLED"]
    /\ UNCHANGED <<env_vars, new_request, docs, answer, parsed,
                   is_code_not_safe, calls, failed_at, reduce_vars, parse_vars>>

\* ------------------------------------------------------ _acall (coroutine)
ACall_Condense ==
    /\ pc["acall"] = "CONDENSING"
    /\ \E resp \in Responses(CondensedQueries) :
          /\ Ask("condense", resp)
          /\ calls' = Append1("acall", Entry("question_generator", "arun",
                                            [question |-> inputs["question"]]))
          /\ IF resp.ok
             THEN /\ new_request' = [new_request EXCEPT !["acall"] = resp.value]
                  /\ pc' = [pc EXCEPT !["acall"] = "RETRIEVING"]
                  /\ UNCHANGED failed_at
             ELSE /\ Fails("acall", "condense")
                  /\ UNCHANGED new_request
    /\ UNCHANGED <<config, inputs, docs, answer, parsed, is_code_not_safe,
                   output, reduce_vars, parse_vars>>

\* _aget_docs: await retriever.aget_relevant_documents, then the budgeter.
ACall_GetDocs ==
    /\ pc["acall"] = "RETRIEVING"
    /\ \E resp \in Responses(RetrievedLists), cresp \in {Ok(<<>>), Failure} :
          LET query == Entry("retriever", "aget_relevant_documents",
                             [query |-> new_request["acall"]])
              b == Budgeted(resp.value, cresp.ok)
          IN /\ svc["retrieve"] \in {None, Some(resp)}
             /\ IF resp.ok /\ Counts(resp.value)
                THEN /\ svc["count"] \in {None, Some(cresp)}
                     /\ svc' = [svc EXCEPT !["retrieve"] = Some(resp),
                                           !["count"] = Some(cresp)]
                ELSE /\ cresp = Failure
                     /\ svc' = [svc EXCEPT !["retrieve"] = Some(resp)]
             /\ IF resp.ok
                THEN /\ calls' = [calls EXCEPT !["acall"] =
                                     Append(@, query) \o b.entries]
                     /\ IF b.failed = "none"
                        THEN /\ docs' = [docs EXCEPT !["acall"] = b.value]
                             /\ pc' = [pc EXCEPT !["acall"] = "SYNTHESIZING"]
                             /\ UNCHANGED failed_at
                        ELSE /\ Fails("acall", b.failed)
                             /\ UNCHANGED docs
                ELSE /\ calls' = Append1("acall", query)
                     /\ Fails("acall", "retrieve")
                     /\ UNCHANGED docs
    /\ UNCHANGED <<config, inputs, new_request, answer, parsed,
                   is_code_not_safe, output, reduce_vars, parse_vars>>

\* Sanitize new_request, serialize the history, await combine_docs_chain.arun.
ACall_Synthesize ==
    /\ pc["acall"] = "SYNTHESIZING"
    /\ new_request' = [new_request EXCEPT !["acall"] = Sanitize(@)]
    /\ \E resp \in Responses(Answers) :
          LET new_inputs == [inputs EXCEPT !["chat_history"] =
                                get_chat_history(inputs["chat_history"])]
          IN /\ Ask("synthesize", resp)
             /\ calls' = Append1("acall", Entry("combine_docs_chain", "arun",
                            [input_documents |-> docs["acall"],
                             question |-> new_inputs["question"],
                             chat_history |-> new_inputs["chat_history"]]))
             /\ IF resp.ok
                THEN /\ answer' = [answer EXCEPT !["acall"] = resp.value]
                     /\ pc' = [pc EXCEPT !["acall"] = "PARSING"]
                     /\ UNCHANGED failed_at
                ELSE /\ Fails("acall", "synthesize")
                     /\ UNCHANGED answer
    /\ UNCHANGED <<config, inputs, docs, parsed, is_code_not_safe, output,
                   reduce_vars, parse_vars>>

\* code, expl = parse_code(answer); is_code_not_safe = True
ACall_Parse ==
    /\ pc["acall"] = "PARSING"
    /\ LET r == parse_code(answer["acall"])
       IN /\ parsed' = [parsed EXCEPT !["acall"] = r]
          /\ pc' = [pc EXCEPT !["acall"] =
                       IF r.python_code # None
                       THEN "CRITIQUING" ELSE "ASSEMBLING"]
    /\ is_code_not_safe' = [is_code_not_safe EXCEPT !["acall"] = BoolTrue]
    /\ UNCHANGED <<env_vars, new_request, docs, answer, output, calls,
                   failed_at, reduce_vars, parse_vars>>

\* is_code_not_safe = self.constitutional_chain.run(code=code), not awaited
ACall_Critique ==
    /\ pc["acall"] = "CRITIQUING"
    /\ \E resp \in Responses(CriticTexts) :
          /\ Ask("critique", resp)
          /\ calls' = Append1("acall", Entry("constitutional_chain", "run",
                         [code |-> parsed["acall"].python_code[1]]))
          /\ IF resp.ok
             THEN /\ is_code_not_safe' =
                        [is_code_not_safe EXCEPT !["acall"] = resp.value]
                  /\ pc' = [pc EXCEPT !["acall"] = "ASSEMBLING"]
                  /\ UNCHANGED failed_at
             ELSE /\ Fails("acall", "critique")
                  /\ UNCHANGED is_code_not_safe
    /\ UNCHANGED <<config, inputs, new_request, docs, answer, parsed, output,
                   reduce_vars, parse_vars>>

\* Mutation of ACall_Output: the coroutine leaves revision_request out.
ACall_OutputNoVerdict ==
    LET base == (config.output_key[2] :> parsed["acall"].explain_code)
                   @@ (config.output_key[1] :> parsed["acall"].python_code)
        with_docs == IF config.return_source_documents
                     THEN ("source_documents" :> docs["acall"]) @@ base
                     ELSE base
    IN IF config.return_generated_question
       THEN ("generated_question" :> new_request["acall"]) @@ with_docs
       ELSE with_docs

\* The dictionary _acall returns.
ACall_Output ==
    LET base == (config.output_key[2] :> parsed["acall"].explain_code)
                   @@ (config.output_key[1] :> parsed["acall"].python_code)
        with_docs == IF config.return_source_documents
                     THEN ("source_documents" :> docs["acall"]) @@ base
                     ELSE base
        with_question == IF config.return_generated_question
                         THEN ("generated_question" :> new_request["acall"])
                                 @@ with_docs
                         ELSE with_docs
    IN IF config.return_revision_request
       THEN ("revision_request" :> is_code_not_safe["acall"]) @@ with_question
       ELSE with_question

ACall_Assemble ==
    /\ pc["acall"] = "ASSEMBLING"
    /\ output' = [output EXCEPT !["acall"] = ACall_Output]
    /\ pc' = [pc EXCEPT !["acall"] = "ASSEMBLED"]
    /\ UNCHANGED <<env_vars, new_request, docs, answer, parsed,
                   is_code_not_safe, calls, failed_at, reduce_vars, parse_vars>>

\* ------------------------------------------------------------ the system
NextChain ==
    \/ Call_Condense
    \/ Call_GetDocs
    \/ Call_Synthesize
    \/ Call_Parse
    \/ Call_Critique
    \/ Call_Assemble
    \/ ACall_Condense
    \/ ACall_GetDocs
    \/ ACall_Synthesize
    \/ ACall_Parse
    \/ ACall_Critique
    \/ ACall_Assemble

Init == InitChain
Next == NextChain
Spec == Init /\ [][Next]_vars

\* The entry points on their inputs, or the parser alone on its wider set
\* of raw texts.
InitChainOrParse == InitChain \/ InitParse
NextChainOrParse == NextChain \/ NextParse
SpecChainOrParse == InitChainOrParse /\ [][NextChainOrParse]_vars

\* ================================================================ claims
\* The combined token cost of a document sequence.
Cost(ds) == PySum([i \in 1..Len(ds) |-> get_num_tokens(ds[i].page_content)])

\* pat occurs somewhere in s.
Contains(s, pat) == \E i \in 1..Len(s) : MatchAt(s, pat, i)

\* C3: whenever _reduce_tokens_below_limit returns, what it returns is a
\* prefix of its argument (same documents, same order, from the first),
\* for every document sequence, every limit and both applications.
C3_ReduceReturnsPrefix ==
    /\ (r_pc \in {"once", "twice"} /\ ~r_first.raised)
          => IsPrefix(r_first.value, r_docs)
    /\ (r_pc = "twice" /\ ~r_second.raised)
          => IsPrefix(r_second.value, r_first.value)

\* C3 witness: a call that dropped some documents and kept some.
C3_Witness ==
    /\ r_pc = "once"
    /\ ~r_first.raised
    /\ Len(r_first.value) > 0
    /\ Len(r_first.value) < Len(r_docs)

\* C4 as stated, over the limits some output can meet (0 and above): with
\* a limit set (0 included) and the stuff strategy, the returned documents
\* cost at most the limit and are the longest such prefix of the argument.
C4_BudgetBound ==
    (/\ r_pc = "once"
     /\ config.max_tokens_limit # None
     /\ config.max_tokens_limit[1] >= 0
     /\ config.is_stuff
     /\ ~r_first.raised)
    => /\ IsPrefix(r_first.value, r_docs)
       /\ Cost(r_first.value) <= config.max_tokens_limit[1]
       /\ Len(r_first.value) < Len(r_docs)
             => Cost(SubSeq(r_docs, 1, Len(r_first.value) + 1))
                    > config.max_tokens_limit[1]

\* C5 as stated: applying _reduce_tokens_below_limit to its own output
\* completes and returns that output unchanged, for any limit.
C5_ReduceIdempotent ==
    r_pc = "twice"
    => /\ ~r_second.raised
       /\ r_second.value = r_first.value

\* C6: with max_tokens_limit unset the budgeter returns its argument
\* unchanged and calls get_num_tokens for no document, whatever the
\* strategy.
C6_NoLimitNoTrim ==
    (r_pc \in {"once", "twice"} /\ config.max_tokens_limit = None)
    => /\ ~r_first.raised
       /\ r_first.value = r_docs
       /\ r_first.counted = <<>>

\* C6 witness: no limit, a non-stuff and a stuff strategy alike, with
\* documents that any positive limit of the model would trim.
C6_Witness ==
    /\ r_pc = "once"
    /\ config.max_tokens_limit = None
    /\ config.is_stuff
    /\ Len(r_docs) = MaxDocs
    /\ Cost(r_docs) > MaxLimit
    /\ r_first.value = r_docs

\* C7 as stated, over code bodies that are not the sentinel and do not end
\* in a backtick: for C without the closing fence and any E (ending in a
\* newline or not), parsing ```python + C + ``` + E returns exactly (C, E).
C7_ParserRoundTrip ==
    (/\ p_pc = "parsed"
     /\ p_shape = "fenced"
     /\ p_prefix = <<>>
     /\ ~Contains(p_code, CloseFence)
     /\ p_code # SentinelNone
     /\ (p_code = <<>> \/ p_code[Len(p_code)] # Tick))
    => p_result = [python_code |-> Some(p_code), explain_code |-> Some(p_expl)]

\* The first ```python fence of the raw text has the body "None".
SentinelCase ==
    /\ p_pc = "parsed"
    /\ p_shape = "fenced"
    /\ p_code = SentinelNone

HasFence(text) ==
    \E i \in 1..Len(text), j \in 1..Len(text) :
        /\ MatchAt(text, OpenFence, i)
        /\ j >= i + Len(OpenFence)
        /\ MatchAt(text, CloseFence, j)

\* The first ```python fence of the text has the body "None".
FenceBodyIsNone(text) ==
    \E i \in 1..Len(text) :
        /\ MatchAt(text, OpenFence \o SentinelNone \o CloseFence, i)
        /\ \A k \in 1..(i - 1) : ~MatchAt(text, OpenFence, k)

\* The entry point has run its parse step on the synthesized text.
HasParsed(p) ==
    \/ pc[p] \in {"CRITIQUING", "ASSEMBLING", "ASSEMBLED"}
    \/ failed_at[p] = "critique"

\* The entry point called the critic.
CalledCritic(p) ==
    \E k \in 1..Len(calls[p]) : calls[p][k].service = "constitutional_chain"

\* C1: when the synthesized text yields no code (no fence, or a fence
\* whose body is exactly "None"), the critic is not called, the verdict is
\* True, and a result that carries revision_request carries True.
C1_FailClosed ==
    \A p \in Paths :
        (/\ HasParsed(p)
         /\ ~HasFence(answer[p]) \/ FenceBodyIsNone(answer[p]))
        => /\ pc[p] \in {"ASSEMBLING", "ASSEMBLED"}
           /\ ~CalledCritic(p)
           /\ is_code_not_safe[p] = BoolTrue
           /\ (pc[p] = "ASSEMBLED" /\ config.return_revision_request)
                 => output[p]["revision_request"] = BoolTrue

\* C1 witness: both entry points returned a result with the verdict for a
\* text whose fence holds "None".
C1_Witness ==
    \A p \in Paths :
        /\ pc[p] = "ASSEMBLED"
        /\ answer[p] = AnswerSentinel
        /\ config.return_revision_request
        /\ output[p]["revision_request"] = BoolTrue

\* Two calls are the same request to the same service (the blocking and
\* the awaited method of a service are one request).
SameCall(a, b) == a.service = b.service /\ a.args = b.args

Terminal(p) == pc[p] \in {"ASSEMBLED", "FAILED"}

\* C2: on the same request, configuration and service responses, _call and
\* _acall issue the same service calls with the same arguments in the same
\* order, and end alike: the same result, or a failure at the same stage.
C2_EntryPointsEquivalent ==
    /\ \A k \in 1..Len(calls["call"]) :
          k <= Len(calls["acall"])
             => SameCall(calls["call"][k], calls["acall"][k])
    /\ (Terminal("call") /\ Terminal("acall"))
          => /\ pc["call"] = pc["acall"]
             /\ failed_at["call"] = failed_at["acall"]
             /\ Len(calls["call"]) = Len(calls["acall"])
             /\ output["call"] = output["acall"]

\* C2 witness: both returned a full result after trimming the documents
\* and calling the critic.
C2_Witness ==
    /\ \A p \in Paths : pc[p] = "ASSEMBLED" /\ CalledCritic(p)
    /\ Len(docs["call"]) > 0
    /\ Len(docs["call"]) < MaxDocs
    /\ config.return_source_documents
    /\ config.return_generated_question
    /\ config.return_revision_request
    /\ output["call"] = output["acall"]

\* C9: when the text holds no ```python fence that is closed later,
\* parse_code gives code absent and explanation absent (for every raw text
\* of the parser's set), and an entry point that synthesized such a text
\* goes on to assemble a result with code absent, explanation absent and
\* (when it carries the verdict) the verdict True.
C9_ParseMiss ==
    /\ (p_pc = "parsed" /\ ~HasFence(p_raw))
          => p_result = [python_code |-> None, explain_code |-> None]
    /\ \A p \in Paths :
          (HasParsed(p) /\ ~HasFence(answer[p]))
          => /\ parsed[p] = [python_code |-> None, explain_code |-> None]
             /\ pc[p] \in {"ASSEMBLING", "ASSEMBLED"}
             /\ pc[p] = "ASSEMBLED"
                   => /\ output[p]["code"] = None
                      /\ output[p]["explanation"] = None
                      /\ config.return_revision_request
                            => output[p]["revision_request"] = BoolTrue

\* C9 witness: a result returned for a text whose fence is never closed,
\* with two documents kept (scenario B).
C9_Witness ==
    \E p \in Paths :
        /\ pc[p] = "ASSEMBLED"
        /\ answer[p] = AnswerUnclosed
        /\ Len(docs[p]) = 2
        /\ config.return_revision_request
        /\ output[p]["code"] = None
        /\ output[p]["revision_request"] = BoolTrue

\* The keys the flags call for.
FlagKeys ==
    {"code", "explanation"}
       \cup (IF config.return_source_documents THEN {"source_documents"} ELSE {})
       \cup (IF config.return_generated_question THEN {"generated_question"} ELSE {})
       \cup (IF config.return_revision_request THEN {"revision_request"} ELSE {})

\* C10: a returned result holds code and explanation, and holds
\* source_documents, generated_question and revision_request exactly when
\* the flag of each is set.
C10_OutputFlags ==
    \A p \in Paths : pc[p] = "ASSEMBLED" => DOMAIN output[p] = FlagKeys

\* C10 witness: documents were retrieved and kept, return_source_documents
\* is off and the two other flags are on.
C10_Witness ==
    \E p \in Paths :
        /\ pc[p] = "ASSEMBLED"
        /\ docs[p] # <<>>
        /\ ~config.return_source_documents
        /\ config.return_generated_question
        /\ config.return_revision_request
        /\ DOMAIN output[p] =
              {"code", "explanation", "generated_question", "revision_request"}

ServiceOf(stage) ==
    CASE stage = "condense" -> "question_generator"
      [] stage = "retrieve" -> "retriever"
      [] stage = "count" -> "llm"
      [] stage = "synthesize" -> "combine_docs_chain"
      [] stage = "critique" -> "constitutional_chain"

Rank(service) ==
    CASE service = "question_generator" -> 1
      [] service = "retriever" -> 2
      [] service = "llm" -> 3
      [] service = "combine_docs_chain" -> 4
      [] service = "constitutional_chain" -> 5

\* How often the entry point called the service.
TimesCalled(p, service) ==
    Cardinality({k \in 1..Len(calls[p]) : calls[p][k].service = service})

\* C12: when a stage's service raises, the invocation ends in that
\* failure: the failing call is the last one issued, it was issued once,
\* and no result is returned; a returned result was built from answers
\* only.
C12_FailurePropagates ==
    \A p \in Paths :
        /\ \A st \in Stages :
              (TimesCalled(p, ServiceOf(st)) > 0 /\ svc[st] = Some(Failure))
              => /\ pc[p] = "FAILED"
                 /\ failed_at[p] = st
        /\ (pc[p] = "FAILED" /\ failed_at[p] \in Stages)
              => /\ svc[failed_at[p]] = Some(Failure)
                 /\ DOMAIN output[p] = {}
                 /\ calls[p][Len(calls[p])].service = ServiceOf(failed_at[p])
                 /\ TimesCalled(p, ServiceOf(failed_at[p])) = 1
        /\ pc[p] = "ASSEMBLED"
              => \A st \in Stages :
                    TimesCalled(p, ServiceOf(st)) > 0 => svc[st][1].ok

\* C12 witness: the critic raised after the four earlier stages answered.
C12_Witness ==
    \E p \in Paths :
        /\ pc[p] = "FAILED"
        /\ failed_at[p] = "critique"
        /\ TimesCalled(p, "llm") = MaxDocs
        /\ Len(calls[p]) = MaxDocs + 4
        /\ DOMAIN output[p] = {}

\* C13: the calls of one invocation come in the order condense, retrieve,
\* token counts (one per retrieved document, in document order),
\* synthesize, critique; nothing is called twice but the token counter,
\* and a returned result has exactly one condense, one retrieve and one
\* synthesize call behind it.
C13_StepOrder ==
    \A p \in Paths :
        LET c == calls[p] IN
        /\ \A i \in 1..Len(c), j \in 1..Len(c) :
              i < j => /\ Rank(c[i].service) <= Rank(c[j].service)
                       /\ Rank(c[i].service) = Rank(c[j].service)
                             => c[i].service = "llm"
        /\ \A k \in 1..Len(c) :
              /\ k = 1 => c[k].service = "question_generator"
              /\ k = 2 => c[k].service = "retriever"
              /\ c[k].service = "llm"
                    => /\ k - 2 <= Len(svc["retrieve"][1].value)
                       /\ c[k].args.text =
                             svc["retrieve"][1].value[k - 2].page_content
        /\ pc[p] = "ASSEMBLED"
              => /\ TimesCalled(p, "question_generator") = 1
                 /\ TimesCalled(p, "retriever") = 1
                 /\ TimesCalled(p, "combine_docs_chain") = 1
                 /\ TimesCalled(p, "constitutional_chain") <= 1
                 /\ TimesCalled(p, "llm") \in {0, Len(svc["retrieve"][1].value)}

\* C13 witness: both entry points returned after all five kinds of call,
\* the token counts over two documents of different cost.
C13_Witness ==
    \A p \in Paths :
        /\ pc[p] = "ASSEMBLED"
        /\ svc["retrieve"] = Some(Ok(MkDocs(<<1, MaxCost>>)))
        /\ Len(calls[p]) = 6
        /\ calls[p][3].args.text = Words(1)
        /\ calls[p][4].args.text = Words(MaxCost)
        /\ calls[p][6].service = "constitutional_chain"

\* C14 as stated: an invocation ends in failure only when one of its
\* service calls raised; in particular the budgeter's drop loop never
\* raises of its own, whatever the documents and the configured limit.
C14_FailsOnlyOnServiceFailure ==
    \A p \in Paths :
        pc[p] = "FAILED"
        => /\ failed_at[p] \in Stages
           /\ svc[failed_at[p]] = Some(Failure)

\* The condenser's answer, and the entries of one service in a call log.
Condensed == svc["condense"][1].value

EntriesOf(p, service) ==
    {k \in 1..Len(calls[p]) : calls[p][k].service = service}

\* C15 as stated: when the condensed query differs from the raw question,
\* the question handed to the synthesizer is the condensed query.
C15_SynthesizerGetsCondensed ==
    \A p \in Paths :
        \A k \in EntriesOf(p, "combine_docs_chain") :
            Condensed # inputs["question"]
            => calls[p][k].args.question = Condensed

\* C16: the query given to the retriever is the condenser's answer, letter
\* for letter; the sanitized form is not what the synthesizer is asked
\* (it is asked the question of the inputs), and it appears in the result
\* as generated_question only.
C16_RetrievalBeforeSanitization ==
    \A p \in Paths :
        /\ \A k \in EntriesOf(p, "retriever") :
              calls[p][k].args.query = Condensed
        /\ \A k \in EntriesOf(p, "combine_docs_chain") :
              calls[p][k].args.question = inputs["question"]
        /\ (pc[p] = "ASSEMBLED" /\ config.return_generated_question)
              => /\ output[p]["generated_question"] = Sanitize(Condensed)
                 /\ Condensed = Python \o <<" ">> \o RawQuestion
                       => output[p]["generated_question"] =
                             <<" ">> \o RawQuestion

\* C16 witness: the retriever was asked "python app" and the result carries
\* " app" as generated_question.
C16_Witness ==
    \E p \in Paths :
        /\ pc[p] = "ASSEMBLED"
        /\ config.return_generated_question
        /\ Condensed = Python \o <<" ">> \o RawQuestion
        /\ \E k \in EntriesOf(p, "retriever") :
              Contains(calls[p][k].args.query, Python)
        /\ output[p]["generated_question"] = <<" ">> \o RawQuestion

\* C17 as stated: once the answer is parsed and the critic stage is over,
\* the critic has been called exactly when the parsed code is present and
\* not the empty text.
C17_CriticOnlyOnNonEmptyCode ==
    \A p \in Paths :
        pc[p] \in {"ASSEMBLING", "ASSEMBLED"}
        => (CalledCritic(p)
              <=> /\ parsed[p].python_code # None
                  /\ parsed[p].python_code[1] # <<>>)

\* C18 as stated: in _acall the condenser, the retriever, the synthesizer
\* and the critic are each called through their awaitable method.
C18_AcallAwaitsEveryService ==
    \A k \in 1..Len(calls["acall"]) :
        calls["acall"][k].service \in
            {"question_generator", "retriever", "combine_docs_chain",
             "constitutional_chain"}
        => calls["acall"][k].method \in {"arun", "aget_relevant_documents"}

\* C19 as stated: the keys of a returned dictionary are exactly the keys
\* output_keys declares, for every setting of the three return flags.
C19_DeclaredKeysAreReturnedKeys ==
    \A p \in Paths :
        pc[p] = "ASSEMBLED"
        => DOMAIN output[p] = {output_keys[i] : i \in 1..Len(output_keys)}

\* C20 as stated: the generated_question of a result contains neither
\* "streamlit" nor "python".
C20_SanitizationComplete ==
    \A p \in Paths :
        (pc[p] = "ASSEMBLED" /\ config.return_generated_question)
        => /\ ~Contains(output[p]["generated_question"], Streamlit)
           /\ ~Contains(output[p]["generated_question"], Python)

====
